---- MODULE Spec2Model ----
(***************************************************************************)
(* A model of api_gen.py, the generator of h5py's lowest-level Cython      *)
(* bindings: the Line parser (two regular expressions), the LineProcessor  *)
(* loop that writes three output files, the IF-wrapping of every fragment, *)
(* the return-type classification, and the run-time behaviour of one       *)
(* emitted error wrapper.                                                  *)
(*                                                                         *)
(* Text is modelled character by character: a Python str is a TLA+ string  *)
(* (a sequence of characters), read with Len, SubSeq and \o.               *)
(***************************************************************************)
EXTENDS Integers, Sequences, FiniteSets

VARIABLES
    functions,    \* self.functions: the lines of api_functions.txt not yet read
    consumed,     \* the lines the for loop has taken so far, oldest first
    raw_defs,     \* self.raw_defs: the strings written to _hdf5.pxd, in order
    cython_defs,  \* self.cython_defs: the strings written to defs.pxd
    cython_imp,   \* self.cython_imp: the strings written to defs.pyx
    line,         \* self.line: the descriptor of the current function line
    condition,    \* write_cython_imp's local: the failure test
    retval,       \* write_cython_imp's local: the sentinel
    err,          \* the message of the ValueError that ended the run ("" if none)
    pc,           \* where LineProcessor.run is
    wpc,          \* where the emitted wrapper is
    r,            \* the emitted wrapper's local r
    ret,          \* how the emitted wrapper ended: what it returned or raised
    trace         \* what the emitted wrapper has done so far

vars == <<functions, consumed, raw_defs, cython_defs, cython_imp, line,
          condition, retval, err, pc, wpc, r, ret, trace>>

-----------------------------------------------------------------------------
(* Characters and strings *)

Lower == {"a","b","c","d","e","f","g","h","i","j","k","l","m",
          "n","o","p","q","r","s","t","u","v","w","x","y","z"}
Upper == {"A","B","C","D","E","F","G","H","I","J","K","L","M",
          "N","O","P","Q","R","S","T","U","V","W","X","Y","Z"}
Digit == {"0","1","2","3","4","5","6","7","8","9"}
Alpha == Lower \cup Upper \cup {"_"}          \* [a-zA-Z_]
AlNum == Alpha \cup Digit                     \* [a-zA-Z0-9_]
SigChar == AlNum \cup {",", "*", " "}         \* [a-zA-Z0-9_,* ]
Blank == {" "}                                \* [ ]
BlankStar == {" ", "*"}                       \* [ *]
Star == {"*"}                                 \* \*
AlphaUnder == Lower \cup Upper \cup {"_"}     \* [a-zA-Z_] of the status pattern
WhiteSpace == {" ", "\t", "\n", "\r"}         \* what str.strip() removes

\* the character at position i, "" outside the string
Ch(s, i) == IF 1 <= i /\ i <= Len(s) THEN SubSeq(s, i, i) ELSE ""

SetMin(S) == CHOOSE m \in S : \A k \in S : m <= k
SetMax(S) == CHOOSE m \in S : \A k \in S : m >= k

\* str.startswith(w)
StartsWith(s, w) == Len(s) >= Len(w) /\ SubSeq(s, 1, Len(w)) = w

\* w in s
Contains(s, w) == \E i \in 1..(Len(s) + 1) :
                     i + Len(w) - 1 <= Len(s) /\ SubSeq(s, i, i + Len(w) - 1) = w

\* str.strip()
StripTo(s, keep) == IF keep = {} THEN "" ELSE SubSeq(s, SetMin(keep), SetMax(keep))
Strip(s) == StripTo(s, {i \in 1..Len(s) : Ch(s, i) \notin WhiteSpace})

\* str.count(c) for a single character c
Count(s, c) == Cardinality({i \in 1..Len(s) : Ch(s, i) = c})

\* str.split(c)[0]
SplitFirstAt(s, at) == IF at = {} THEN s ELSE SubSeq(s, 1, SetMin(at) - 1)
SplitFirst(s, c) == SplitFirstAt(s, {i \in 1..Len(s) : Ch(s, i) = c})

\* str.split(c), for a single character c
RECURSIVE Split(_, _)
SplitAt(s, c, i) == <<SubSeq(s, 1, i - 1)>> \o Split(SubSeq(s, i + 1, Len(s)), c)
SplitAmong(s, c, at) == IF at = {} THEN <<s>> ELSE SplitAt(s, c, SetMin(at))
Split(s, c) == SplitAmong(s, c, {i \in 1..Len(s) : Ch(s, i) = c})

\* sep.join(parts)
RECURSIVE Join(_, _)
Join(parts, sep) ==
    IF parts = <<>> THEN ""
    ELSE IF Len(parts) = 1 THEN parts[1]
    ELSE parts[1] \o sep \o Join(Tail(parts), sep)

\* str.replace(old, new, n): the first n non-overlapping occurrences, left to
\* right; every occurrence when n is negative (n = -1 is passed as all = TRUE).
RECURSIVE Replace(_, _, _, _, _)
ReplaceAt(s, old, new, n, all, i) ==
    SubSeq(s, 1, i - 1) \o new
    \o Replace(SubSeq(s, i + Len(old), Len(s)), old, new, IF all THEN n ELSE n - 1, all)
ReplaceAmong(s, old, new, n, all, at) ==
    IF (~all /\ n = 0) \/ at = {} THEN s ELSE ReplaceAt(s, old, new, n, all, SetMin(at))
Replace(s, old, new, n, all) ==
    ReplaceAmong(s, old, new, n, all,
                 {i \in 1..(Len(s) - Len(old) + 1) : SubSeq(s, i, i + Len(old) - 1) = old})

\* int(x) for a string of decimal digits
DigitValue(c) == CHOOSE d \in 0..9 : Ch("0123456789", d + 1) = c
RECURSIVE ParseInt(_)
ParseInt(s) ==
    IF Len(s) = 0 THEN 0
    ELSE 10 * ParseInt(SubSeq(s, 1, Len(s) - 1)) + DigitValue(Ch(s, Len(s)))

\* str(n) for a natural number
RECURSIVE IntStr(_)
IntStr(n) ==
    IF n < 10 THEN Ch("0123456789", n + 1)
    ELSE IntStr(n \div 10) \o Ch("0123456789", (n % 10) + 1)

\* str(t) for a tuple of three integers: "(1, 8, 12)"
TupleStr(t) == "(" \o IntStr(t[1]) \o ", " \o IntStr(t[2]) \o ", " \o IntStr(t[3]) \o ")"

\* tuple(int(x) for x in v.split('.'))
IntTuple(p) == <<ParseInt(p[1]), ParseInt(p[2]), ParseInt(p[3])>>
VersionTuple(v) == IntTuple(Split(v, "."))

-----------------------------------------------------------------------------
(* Regular-expression steps.  A position is the index of the next character *)
(* to read; 0 means the match has failed.                                   *)

\* the end of the longest run of characters of class C starting at i
RunEndAmong(s, bad) == IF bad = {} THEN Len(s) + 1 ELSE SetMin(bad)
RunEnd(s, i, C) == RunEndAmong(s, {k \in i..Len(s) : Ch(s, k) \notin C})

\* a literal word
Lit(s, i, w) ==
    IF i = 0 THEN 0
    ELSE IF i + Len(w) - 1 <= Len(s) /\ SubSeq(s, i, i + Len(w) - 1) = w
         THEN i + Len(w) ELSE 0

\* C* (greedy)
Many(s, i, C) == IF i = 0 THEN 0 ELSE RunEnd(s, i, C)

\* C+ (greedy)
Longer(i, j) == IF j > i THEN j ELSE 0
Some(s, i, C) == IF i = 0 THEN 0 ELSE Longer(i, RunEnd(s, i, C))

\* [0-9]+\.[0-9]+\.[0-9]+
VersionRe(s, i) ==
    Some(s, Lit(s, Some(s, Lit(s, Some(s, i, Digit), "."), Digit), "."), Digit)

\* [a-zA-Z_]+[a-zA-Z0-9_]*
IdentRe(s, i) == Many(s, Some(s, i, Alpha), AlNum)

-----------------------------------------------------------------------------
(* class Line *)

\* Python's None, and a Python list: both records, so that "is None" can be
\* asked of either.  A version tuple is a plain tuple of three numbers.
None == [none |-> TRUE]
PyList(items) == [list |-> items]
IsNone(v) == v = None

\* The optional groups of PATTERN a match attempt takes.  Python's matcher
\* tries "taken" before "not taken" at every optional group and changes the
\* latest choice first, so attempt 0 (every group taken) comes first and
\* attempt 31 (none taken) last.  Every other choice of the pattern is forced:
\* a greedy run that stops short is followed by a character of its own class,
\* which no later element of the pattern accepts.
Attempts == 0..31
Taken(n, bit) == (n \div bit) % 2 = 0

\* SubSeq(s, a, b - 1) for the positions of a match, "" for a failed one
Group(s, a, b) == IF a # 0 /\ b # 0 THEN SubSeq(s, a, b - 1) ELSE ""

\* an optional group: the position after it when taken, i when not
MpiGroup(s, i, taken) == IF taken THEN Some(s, Lit(s, i, "MPI"), Blank) ELSE i
ErrorGroup(s, i, taken) == IF taken THEN Some(s, Lit(s, i, "ERROR"), Blank) ELSE i
MinVersionGroup(s, i, taken) == IF taken THEN VersionRe(s, i) ELSE i
MaxVersionGroup(s, i, taken) == IF taken THEN VersionRe(s, Lit(s, i, "-")) ELSE i
UnsignedGroup(s, i, taken) == IF taken THEN Some(s, Lit(s, i, "unsigned"), Blank) ELSE i

\* The positions after each element of PATTERN, one element at a time: v holds
\* the positions so far.
PatternStep(s, n, v) ==
    CASE Len(v) = 0 -> MpiGroup(s, 1, Taken(n, 16))
      [] Len(v) = 1 -> ErrorGroup(s, v[1], Taken(n, 8))
      [] Len(v) = 2 -> MinVersionGroup(s, v[2], Taken(n, 4))
      [] Len(v) = 3 -> MaxVersionGroup(s, v[3], Taken(n, 2))
      [] Len(v) = 4 -> Many(s, v[4], Blank)
      [] Len(v) = 5 -> Many(s, IdentRe(s, UnsignedGroup(s, v[5], Taken(n, 1))), Star)
      [] Len(v) = 6 -> Some(s, v[6], Blank)
      [] Len(v) = 7 -> IdentRe(s, v[7])
      [] Len(v) = 8 -> Lit(s, Many(s, v[8], Blank), "(")
      [] Len(v) = 9 -> Many(s, v[9], SigChar)
      [] Len(v) = 10 -> Lit(s, v[10], ")")

RECURSIVE PatternPositions(_, _, _)
PatternPositions(s, n, v) ==
    IF Len(v) = 11 THEN v ELSE PatternPositions(s, n, Append(v, PatternStep(s, n, v)))

\* the groups of an attempt, from its positions
PatternGroups(s, n, v) ==
    [end |-> v[11],
     mpi |-> Taken(n, 16),
     error |-> Taken(n, 8),
     has_min |-> Taken(n, 4),
     min_version |-> IF Taken(n, 4) THEN Group(s, v[2], v[3]) ELSE "",
     has_max |-> Taken(n, 2),
     max_version |-> IF Taken(n, 2) /\ v[3] # 0 THEN Group(s, v[3] + 1, v[4]) ELSE "",
     code |-> Group(s, v[5], v[6]),
     fname |-> Group(s, v[7], v[8]),
     sig |-> Group(s, v[9], v[10])]

\* One attempt at PATTERN.match(text).
PatternAttempt(s, n) == PatternGroups(s, n, PatternPositions(s, n, <<>>))

\* the first attempt of a set of attempts, or None
FirstAttempt(s, ok) == IF ok = {} THEN None ELSE PatternAttempt(s, SetMin(ok))

\* PATTERN.match(text): the first attempt that succeeds, or None.  re.match
\* anchors the start of the text only.
PatternMatch(s) == FirstAttempt(s, {n \in Attempts : PatternAttempt(s, n).end # 0})

\* the param group of a SIG_PATTERN match whose type ended at q2
SigParam(s, q3) == [end |-> IdentRe(s, q3), param |-> Group(s, q3, IdentRe(s, q3))]

\* One attempt at SIG_PATTERN starting at position i, with or without the
\* optional "unsigned" prefix.
SigAttempt(s, i, uns) ==
    SigParam(s, Many(s, Some(s, Many(s, IdentRe(s, UnsignedGroup(s, i, uns)), Star),
                              Blank), BlankStar))

\* SIG_PATTERN matched at position i: the prefix taken first.
SigPrefer(a, b) == IF a.end # 0 THEN a ELSE b
SigMatchAt(s, i) == SigPrefer(SigAttempt(s, i, TRUE), SigAttempt(s, i, FALSE))

\* SIG_PATTERN.findall(s): the params of the non-overlapping matches, scanning
\* left to right from position pos.  The result is a list, possibly empty.
RECURSIVE FindAllFrom(_, _)
FindAllNext(s, m) == <<m.param>> \o FindAllFrom(s, m.end)
FindAllAmong(s, starts) ==
    IF starts = {} THEN <<>> ELSE FindAllNext(s, SigMatchAt(s, SetMin(starts)))
FindAllFrom(s, pos) == FindAllAmong(s, {i \in pos..Len(s) : SigMatchAt(s, i).end # 0})

SigFindAll(s) == PyList(FindAllFrom(s, 1))

\* a parser that leaves the const qualifiers in the signature
ConstKept(sig) == sig

\* self.sig.replace('const', '')
ConstStripped(sig) == Replace(sig, "const", "", 0, TRUE)

\* The message of the ValueError __init__ raises after the match m, "" when
\* it raises none.
InitError(text, m) ==
    IF IsNone(m) THEN "Invalid line encountered: " \o text
    ELSE IF IsNone(SigFindAll(ConstStripped(m.sig)))
         THEN "Invalid function signature: " \o m.sig
         ELSE ""

LineError(text) == InitError(text, PatternMatch(text))

\* the attributes __init__ sets from the match m
InitAttributes(m) ==
    [mpi |-> m.mpi,
     error |-> m.error,
     min_version |-> IF m.has_min THEN VersionTuple(m.min_version) ELSE None,
     max_version |-> IF m.has_max THEN VersionTuple(m.max_version) ELSE None,
     code |-> m.code,
     fname |-> m.fname,
     sig |-> m.sig,
     args |-> Join(SigFindAll(ConstStripped(m.sig)).list, ", ")]

\* Line(text), when it raises nothing
Line(text) == InitAttributes(PatternMatch(text))

-----------------------------------------------------------------------------
(* The preambles *)

raw_preamble ==
    "# cython: language_level=3\n#\n"
    \o "# Warning: this file is auto-generated from api_gen.py. DO NOT EDIT!\n#\n\n"
    \o "include \"config.pxi\"\n"
    \o "from .api_types_hdf5 cimport *\nfrom .api_types_ext cimport *\n\n"

def_preamble ==
    "# cython: language_level=3\n#\n"
    \o "# Warning: this file is auto-generated from api_gen.py. DO NOT EDIT!\n#\n\n"
    \o "include \"config.pxi\"\n\n"
    \o "from .api_types_hdf5 cimport *\nfrom .api_types_ext cimport *\n\n"

imp_preamble ==
    "# cython: language_level=3\n#\n"
    \o "# Warning: this file is auto-generated from api_gen.py. DO NOT EDIT!\n#\n\n"
    \o "include \"config.pxi\"\n"
    \o "from .api_types_ext cimport *\nfrom .api_types_hdf5 cimport *\n\n"
    \o "from . cimport _hdf5\n\n"
    \o "from ._errors cimport set_exception\n"

-----------------------------------------------------------------------------
(* class LineProcessor: the pure parts *)

\* wrapif(condition, code): every newline of code but the last is followed by
\* four spaces, and the IF line is put in front.  With no newline in code the
\* count passed to replace is -1, which means "all".
ReplaceCount(code, old, new, n) == Replace(code, old, new, n, n < 0)
\* a wrapif that indents after every newline, the last one too
wrapif_every_newline(cond, code) ==
    "IF " \o cond \o ":\n    " \o Replace(code, "\n", "\n    ", 0, TRUE)

wrapif(cond, code) ==
    "IF " \o cond \o ":\n    "
    \o ReplaceCount(code, "\n", "\n    ", Count(code, "\n") - 1)

\* the condition of the version guard, "" when the line has no version
VersionCondition(l) ==
    IF ~IsNone(l.min_version) /\ ~IsNone(l.max_version)
    THEN "HDF5_VERSION >= " \o TupleStr(l.min_version)
         \o " and HDF5_VERSION <= " \o TupleStr(l.max_version)
    ELSE IF ~IsNone(l.min_version)
    THEN "HDF5_VERSION >= " \o TupleStr(l.min_version)
    ELSE IF ~IsNone(l.max_version)
    THEN "HDF5_VERSION <= " \o TupleStr(l.max_version)
    ELSE ""

\* add_cython_if(block): the MPI check is applied first, the version check
\* second, each by wrapif around what is there.
MpiWrapped(l, block) == IF l.mpi THEN wrapif("MPI", block) ELSE block
VersionWrapped(vc, block) == IF vc # "" THEN wrapif(vc, block) ELSE block
\* an add_cython_if that applies the version check first, the MPI check second
add_cython_if_version_first(l, block) ==
    MpiWrapped(l, VersionWrapped(VersionCondition(l), block))

add_cython_if(l, block) == VersionWrapped(VersionCondition(l), MpiWrapped(l, block))

\* "\n".join(("  " + x if x.strip() else x) for x in raw_sig.split("\n"))
IndentRawLine(x) == IF Strip(x) # "" THEN "  " \o x ELSE x
IndentRawLines(xs) == Join([i \in 1..Len(xs) |-> IndentRawLine(xs[i])], "\n")
IndentRaw(text) == IndentRawLines(Split(text, "\n"))

\* "{0.code} {0.fname}({0.sig}) except *\n".format(self.line)
RawSigBlock(l) == l.code \o " " \o l.fname \o "(" \o l.sig \o ") except *\n"

\* what write_raw_sig writes
RawSigText(l) == IndentRaw(add_cython_if(l, RawSigBlock(l)))

\* "cdef {0.code} {0.fname}({0.sig}) except *\n".format(self.line)
CythonSigBlock(l) == "cdef " \o RawSigBlock(l)

\* what write_cython_sig writes
CythonSigText(l) == add_cython_if(l, CythonSigBlock(l))

\* re.match(r'H5[A-Z]+_[a-zA-Z_]+_t', code): anchored at the start only; the
\* greedy [a-zA-Z_]+ gives characters back until "_t" follows it.
StatusTypeTail(code, a) ==
    /\ a # 0
    /\ \E j \in (a + 1)..RunEnd(code, a, AlphaUnder) : Lit(code, j, "_t") # 0
StatusTypeMatch(code) ==
    StatusTypeTail(code, Lit(code, Some(code, Lit(code, 1, "H5"), Upper), "_"))

PointerTypes == {"H5T_conv_t"}
SignedTypes == {"int", "herr_t", "htri_t", "hid_t", "hssize_t", "ssize_t"}
UnsignedTypes == {"unsigned int", "haddr_t", "hsize_t", "size_t"}

\* a chain that asks the signed-status rule before the pointer rule
ClassifySignedFirst(code) ==
    IF code \in SignedTypes \/ StatusTypeMatch(code)
    THEN [known |-> TRUE, condition |-> "<0", retval |-> "-1"]
    ELSE IF Contains(code, "*") \/ code \in PointerTypes
    THEN [known |-> TRUE, condition |-> "==NULL", retval |-> "NULL"]
    ELSE IF code \in UnsignedTypes
    THEN [known |-> TRUE, condition |-> "==0", retval |-> "0"]
    ELSE [known |-> FALSE, condition |-> "", retval |-> ""]

\* write_cython_imp's if/elif chain: the failure test and the return value,
\* or the unknown-return-code error.  retval is the text format() prints
\* (the int 0 prints as "0").
Classify(code) ==
    IF Contains(code, "*") \/ code \in PointerTypes
    THEN [known |-> TRUE, condition |-> "==NULL", retval |-> "NULL"]
    ELSE IF code \in SignedTypes \/ StatusTypeMatch(code)
    THEN [known |-> TRUE, condition |-> "<0", retval |-> "-1"]
    ELSE IF code \in UnsignedTypes
    THEN [known |-> TRUE, condition |-> "==0", retval |-> "0"]
    ELSE [known |-> FALSE, condition |-> "", retval |-> ""]

\* an error text that names the function and not the return type
UnknownCodeNamesFunction(l) == "Return code of <<" \o l.fname \o ">> unknown"

\* the ValueError write_cython_imp raises for an unknown return code
UnknownCodeError(l) == "Return code <<" \o l.code \o ">> unknown"

\* str(bool)
BoolStr(b) == IF b THEN "True" ELSE "False"

\* the wrapper template, filled in
ImpTemplate(l, cond, rv) ==
    "cdef " \o l.code \o " " \o l.fname \o "(" \o l.sig \o ") except *:\n"
    \o "    cdef " \o l.code \o " r\n"
    \o "    _hdf5.H5Eset_auto(NULL, NULL)\n"
    \o "    r = _hdf5." \o l.fname \o "(" \o l.args \o ")\n"
    \o "    if r" \o cond \o ":\n"
    \o "        if set_exception():\n"
    \o "            return <" \o l.code \o ">" \o rv \o "\n"
    \o "        elif " \o BoolStr(l.error) \o ":\n"
    \o "            raise RuntimeError(\"Unspecified error in " \o l.fname
    \o " (return value " \o cond \o ")\")\n"
    \o "    return r\n"
    \o "\n"

\* what write_cython_imp writes
CythonImpText(l, cond, rv) == add_cython_if(l, ImpTemplate(l, cond, rv))

\* the header directive test of run()
IsDirective(text) ==
    ~StartsWith(text, " ") /\ ~StartsWith(text, "#") /\ Len(Strip(text)) > 0

\* the whitespace-or-comment test of run(), on the stripped text
IsSkipped(stripped) == Len(stripped) = 0 \/ Ch(stripped, 1) = "#"

\* what run() writes for a header directive
ExternText(text) == "cdef extern from \"" \o SplitFirst(text, ":") \o ".h\":\n"

-----------------------------------------------------------------------------
(* The inputs: the lines api_functions.txt may hold *)

MaxLines == 2      \* the longest input file of whole-run behaviours
MaxParams == 2     \* the most parameters in a generated parameter list

\* the lines of an input file, as the file iterator yields them
FileLines ==
    { "hdf5:\n",
      "\n",
      "# comment\n",
      "  # indented comment\n",
      "  herr_t H5open()\n",
      "  MPI ERROR 1.8.12 int foo(char* a, size_t b)\n",
      "  1.8.0-1.10.2 hsize_t g(hid_t x)\n",
      "  MPI void* h(int a)\n",
      "  double f(int a)\n",
      "  int 9f(int a)\n" }

Files == UNION {[1..n -> FileLines] : n \in 0..MaxLines}

\* parameter texts: well formed, and the shapes SIG_PATTERN does not handle
ParamTexts ==
    { "int a", "char* a", "const char *name", "unsigned int n", "hid_t  **p",
      "void", "char*a", "long long a", "int constant", "size_t" }

ParamLists == UNION {[1..n -> ParamTexts] : n \in 0..MaxParams}
SigTexts == {Join(ps, ", ") : ps \in ParamLists} \cup {"int a,int b", "int a int b"}

Markers == {"", "MPI ", "ERROR ", "MPI ERROR ", "ERROR MPI ", "MPI  ERROR  "}
Versions == {"", "1.8.12 ", "1.8.0-1.10.2 ", "-1.10.2 ", "01.08.012", "1.8 "}
Codes == { "int", "herr_t", "hsize_t", "unsigned int", "unsigned", "void*",
           "unsigned int*", "H5T_conv_t", "H5T_class_t", "H5T_class_t*",
           "H5T_x_ty", "H5T__t", "double" }
Names == {"foo", "9f", "H5Dopen2"}
Opens == {"(", "", " ("}
Closes == {")", ""}
Trails == {"", " junk", ")"}

\* stripped function lines: every parameter list under one head, every head
\* over one parameter list, and every malformation of the line's structure
LineTexts ==
    {"int foo(" \o sg \o ")" : sg \in SigTexts}
    \cup {m \o v \o c \o " foo(int a)" : m \in Markers, v \in Versions, c \in Codes}
    \cup {c \o " " \o nm \o o \o "int a" \o cl \o t :
            c \in {"int", "double"}, nm \in Names, o \in Opens, cl \in Closes, t \in Trails}

\* one-line files for the line-by-line behaviours
LineFiles == {<<"  " \o t \o "\n">> : t \in LineTexts}

-----------------------------------------------------------------------------
(* LineProcessor.run *)

genvars == <<functions, consumed, raw_defs, cython_defs, cython_imp, line,
             condition, retval, err, pc>>
wrapvars == <<wpc, r, ret, trace>>

\* run() up to the loop: the files are opened and the preambles written
RunOpen ==
    /\ pc = "open"
    /\ raw_defs' = Append(raw_defs, raw_preamble)
    /\ cython_defs' = Append(cython_defs, def_preamble)
    /\ cython_imp' = Append(cython_imp, imp_preamble)
    /\ pc' = "loop"
    /\ UNCHANGED <<functions, consumed, line, condition, retval, err, wrapvars>>

\* one pass of the loop over a header directive
Directive ==
    /\ pc = "loop"
    /\ functions # <<>>
    /\ IsDirective(Head(functions))
    /\ raw_defs' = Append(raw_defs, ExternText(Head(functions)))
    /\ consumed' = Append(consumed, Head(functions))
    /\ functions' = Tail(functions)
    /\ UNCHANGED <<cython_defs, cython_imp, line, condition, retval, err, pc, wrapvars>>

\* one pass of the loop over a whitespace or comment line
SkipLine ==
    /\ pc = "loop"
    /\ functions # <<>>
    /\ ~IsDirective(Head(functions))
    /\ IsSkipped(Strip(Head(functions)))
    /\ consumed' = Append(consumed, Head(functions))
    /\ functions' = Tail(functions)
    /\ UNCHANGED <<raw_defs, cython_defs, cython_imp, line, condition, retval, err,
                   pc, wrapvars>>

\* self.line = Line(text): the attributes, or the ValueError that ends the run
Construct(text, m) ==
    IF InitError(text, m) # ""
    THEN /\ err' = InitError(text, m)
         /\ pc' = "aborted"
         /\ UNCHANGED line
    ELSE /\ line' = InitAttributes(m)
         /\ pc' = "raw"
         /\ UNCHANGED err

\* one pass of the loop up to self.line = Line(text), for a function line
ParseLine ==
    /\ pc = "loop"
    /\ functions # <<>>
    /\ ~IsDirective(Head(functions))
    /\ ~IsSkipped(Strip(Head(functions)))
    /\ consumed' = Append(consumed, Head(functions))
    /\ functions' = Tail(functions)
    /\ Construct(Strip(Head(functions)), PatternMatch(Strip(Head(functions))))
    /\ UNCHANGED <<raw_defs, cython_defs, cython_imp, condition, retval, wrapvars>>

\* self.write_raw_sig()
WriteRawSig ==
    /\ pc = "raw"
    /\ raw_defs' = Append(raw_defs, RawSigText(line))
    /\ pc' = "def"
    /\ UNCHANGED <<functions, consumed, cython_defs, cython_imp, line, condition,
                   retval, err, wrapvars>>

\* a write_cython_sig that writes to the implementation file
WriteCythonSigToImp ==
    /\ pc = "def"
    /\ cython_imp' = Append(cython_imp, CythonSigText(line))
    /\ pc' = "imp"
    /\ UNCHANGED <<functions, consumed, raw_defs, cython_defs, line, condition,
                   retval, err, wrapvars>>

\* self.write_cython_sig()
WriteCythonSig ==
    /\ pc = "def"
    /\ cython_defs' = Append(cython_defs, CythonSigText(line))
    /\ pc' = "imp"
    /\ UNCHANGED <<functions, consumed, raw_defs, cython_imp, line, condition,
                   retval, err, wrapvars>>

\* a write_cython_imp that writes its fragment before it looks at the
\* return code
EmitThenFail(c) ==
    /\ cython_imp' = Append(cython_imp, CythonImpText(line, c.condition, c.retval))
    /\ IF c.known
       THEN /\ condition' = c.condition
            /\ retval' = c.retval
            /\ pc' = "loop"
            /\ UNCHANGED err
       ELSE /\ err' = UnknownCodeError(line)
            /\ pc' = "aborted"
            /\ UNCHANGED <<condition, retval>>

\* write_cython_imp() after the classification c: the write, or the
\* ValueError that ends the run
Emit(c) ==
    IF c.known
    THEN /\ condition' = c.condition
         /\ retval' = c.retval
         /\ cython_imp' = Append(cython_imp, CythonImpText(line, c.condition, c.retval))
         /\ pc' = "loop"
         /\ UNCHANGED err
    ELSE /\ err' = UnknownCodeError(line)
         /\ pc' = "aborted"
         /\ UNCHANGED <<condition, retval, cython_imp>>

\* self.write_cython_imp()
WriteCythonImp ==
    /\ pc = "imp"
    /\ Emit(Classify(line.code))
    /\ UNCHANGED <<functions, consumed, raw_defs, cython_defs, line, wrapvars>>

\* the end of the loop: the four files are closed
Close ==
    /\ pc = "loop"
    /\ functions = <<>>
    /\ pc' = "done"
    /\ UNCHANGED <<functions, consumed, raw_defs, cython_defs, cython_imp, line,
                   condition, retval, err, wrapvars>>

InitRun(files) ==
    /\ functions \in files
    /\ consumed = <<>>
    /\ raw_defs = <<>>
    /\ cython_defs = <<>>
    /\ cython_imp = <<>>
    /\ line = None
    /\ condition = ""
    /\ retval = ""
    /\ err = ""
    /\ pc = "open"
    /\ wpc = "idle"
    /\ r = 0
    /\ ret = None
    /\ trace = <<>>

Init == InitRun(Files \cup LineFiles)

Next ==
    \/ RunOpen
    \/ Directive
    \/ SkipLine
    \/ ParseLine
    \/ WriteRawSig
    \/ WriteCythonSig
    \/ WriteCythonImp
    \/ Close

Spec == Init /\ [][Next]_vars

-----------------------------------------------------------------------------
(* The emitted wrapper at run time: the template's body, with the failure    *)
(* test, the sentinel and the error flag that write_cython_imp printed into  *)
(* it for self.line.                                                         *)

\* what the native function may return: NULL is 0, and an unsigned or
\* pointer result is never negative
NativeResults(cond) == IF cond = "<0" THEN {-1, 0, 1} ELSE {0, 1}

\* "if r{condition}:"
Fails(v, cond) ==
    CASE cond = "==NULL" -> v = 0
      [] cond = "<0" -> v < 0
      [] cond = "==0" -> v = 0

\* the value of "<{0.code}>{retval}"
SentinelValue(rv) ==
    CASE rv = "NULL" -> 0
      [] rv = "-1" -> -1
      [] rv = "0" -> 0

Returned(v) == [kind |-> "return", value |-> v]
Raised(msg) == [kind |-> "raise", value |-> msg]

\* the text of the RuntimeError
UnspecifiedError(l, cond) ==
    "Unspecified error in " \o l.fname \o " (return value " \o cond \o ")"

\* a caller enters the wrapper that the finished run emitted last
WrapperEnter ==
    /\ pc = "done"
    /\ wpc = "idle"
    /\ ~IsNone(line)
    /\ wpc' = "entry"
    /\ UNCHANGED <<genvars, r, ret, trace>>

\* _hdf5.H5Eset_auto(NULL, NULL)
WrapperSuppress ==
    /\ wpc = "entry"
    /\ trace' = Append(trace, "H5Eset_auto")
    /\ wpc' = "call"
    /\ UNCHANGED <<genvars, r, ret>>

\* r = _hdf5.{0.fname}({0.args})
WrapperCall ==
    /\ wpc = "call"
    /\ \E v \in NativeResults(condition) : r' = v
    /\ trace' = Append(trace, "call " \o line.fname \o "(" \o line.args \o ")")
    /\ wpc' = "test"
    /\ UNCHANGED <<genvars, ret>>

\* if r{condition}:
WrapperTest ==
    /\ wpc = "test"
    /\ trace' = Append(trace, "test")
    /\ wpc' = IF Fails(r, condition) THEN "failed" ELSE "return"
    /\ UNCHANGED <<genvars, r, ret>>

\* a wrapper that raises whenever the translator declines, error-flagged
\* or not
WrapperTranslateAlwaysRaises ==
    /\ wpc = "failed"
    /\ \E translated \in BOOLEAN :
          IF translated
          THEN /\ trace' = Append(trace, "set_exception True")
               /\ ret' = Returned(SentinelValue(retval))
               /\ wpc' = "done"
          ELSE /\ trace' = Append(trace, "set_exception False")
               /\ wpc' = "raise"
               /\ UNCHANGED ret
    /\ UNCHANGED <<genvars, r>>

\* if set_exception(): return <{0.code}>{retval} / elif {0.error}: ...
\* set_exception() answers whether it raised a pending HDF5 error.
WrapperTranslate ==
    /\ wpc = "failed"
    /\ \E translated \in BOOLEAN :
          IF translated
          THEN /\ trace' = Append(trace, "set_exception True")
               /\ ret' = Returned(SentinelValue(retval))
               /\ wpc' = "done"
          ELSE /\ trace' = Append(trace, "set_exception False")
               /\ wpc' = IF line.error THEN "raise" ELSE "return"
               /\ UNCHANGED ret
    /\ UNCHANGED <<genvars, r>>

\* raise RuntimeError("Unspecified error in ...")
WrapperRaise ==
    /\ wpc = "raise"
    /\ trace' = Append(trace, "raise")
    /\ ret' = Raised(UnspecifiedError(line, condition))
    /\ wpc' = "done"
    /\ UNCHANGED <<genvars, r>>

\* return r
WrapperReturn ==
    /\ wpc = "return"
    /\ trace' = Append(trace, "return r")
    /\ ret' = Returned(r)
    /\ wpc' = "done"
    /\ UNCHANGED <<genvars, r>>

\* one-line files whose wrappers are run: every classification, with and
\* without the ERROR marker, under a header directive or a comment
WrapperCodes == {"int", "hsize_t", "unsigned int", "void*", "H5T_conv_t",
                 "H5T_class_t", "H5T_class_t*"}
WrapperFiles ==
    {<<h, "  " \o m \o c \o " foo(int a, char* b)\n">> :
        h \in {"hdf5:\n", "# comment\n"}, m \in {"", "ERROR ", "MPI ERROR 1.8.12 "},
        c \in WrapperCodes}

InitWrapper == InitRun(WrapperFiles)

NextWrapper ==
    \/ RunOpen
    \/ Directive
    \/ SkipLine
    \/ ParseLine
    \/ WriteRawSig
    \/ WriteCythonSig
    \/ WriteCythonImp
    \/ Close
    \/ WrapperEnter
    \/ WrapperSuppress
    \/ WrapperCall
    \/ WrapperTest
    \/ WrapperTranslate
    \/ WrapperRaise
    \/ WrapperReturn

SpecWrapper == InitWrapper /\ [][NextWrapper]_vars

-----------------------------------------------------------------------------
(* What the properties speak of *)

Last(seq) == seq[Len(seq)]

\* the line the loop took last
LastConsumed == Last(consumed)

\* a line that is neither a directive nor skipped
IsFunctionLine(text) == ~IsDirective(text) /\ ~IsSkipped(Strip(text))

\* a line for which run() writes something
IsWritten(text) == IsDirective(text) \/ IsFunctionLine(text)

\* the line taken last is a function line
AtFunctionLine == consumed # <<>> /\ IsFunctionLine(LastConsumed)

\* Line(text) has just returned the descriptor of the line taken last
Parsed == AtFunctionLine /\ pc = "raw"

\* the three fragments of the line taken last are written, and are the last
\* entry of each stream
Written == AtFunctionLine /\ pc \in {"loop", "done"}

\* the lines of a text, and the number of spaces a line starts with
Lines(text) == Split(text, "\n")
Indent(x) == RunEnd(x, 1, Blank) - 1

RECURSIVE Spaces(_)
Spaces(n) == IF n = 0 THEN "" ELSE " " \o Spaces(n - 1)

\* the number of guards of a line
Guards(l) == (IF l.mpi THEN 1 ELSE 0) + (IF VersionCondition(l) # "" THEN 1 ELSE 0)

\* what PATTERN makes of each line of a sequence of lines
Matched(text) == PatternMatch(Strip(text))
RECURSIVE Matches(_)
Matches(lines) ==
    IF lines = <<>> THEN <<>> ELSE <<Matched(Head(lines))>> \o Matches(Tail(lines))

\* a fragment declares the function of a matched line
Signature(m) == m.code \o " " \o m.fname \o "(" \o m.sig \o ") except *"
Declares(frag, m) == ~IsNone(m) /\ Contains(frag, Signature(m))

\* the function lines among the lines taken, and the fragments among the
\* entries of the raw stream
FunctionLines == SelectSeq(consumed, IsFunctionLine)
WrittenLines == SelectSeq(consumed, IsWritten)
IsFragment(x) == ~StartsWith(x, "cdef extern from ")
Fragments(stream) == SelectSeq(Tail(stream), IsFragment)

\* the function lines (by their place among the function lines) that a
\* stream holds a fragment for
Held(frags, ms) ==
    {k \in 1..Len(ms) : k <= Len(frags) /\ Declares(frags[k], ms[k])}

-----------------------------------------------------------------------------
(* C1 *)

WrapperEvents == {trace[i] : i \in 1..Len(trace)}
TestTrue ==
    \/ condition = "<0" /\ r < 0
    \/ condition \in {"==NULL", "==0"} /\ r = 0
Outcome ==
    IF TestTrue /\ "set_exception True" \in WrapperEvents
    THEN [kind |-> "return", value |-> IF retval = "-1" THEN -1 ELSE 0]
    ELSE IF TestTrue /\ line.error
    THEN [kind |-> "raise",
          value |-> "Unspecified error in " \o line.fname \o " (return value "
                    \o condition \o ")"]
    ELSE [kind |-> "return", value |-> r]
StepAfter(i, before) == i > 1 /\ trace[i - 1] \in before

\* C1: an emitted wrapper first suppresses the library's automatic error
\* printing, then calls the native function with the extracted arguments,
\* then tests the result with the test chosen for the return type; only when
\* the test is true does it ask the exception translator; it returns the
\* sentinel when the translator raised, raises the "Unspecified error"
\* RuntimeError only when the translator declined and the line is
\* error-flagged, and returns the native result in every other case.
C1_WrapperProtocol ==
    /\ \A i \in 1..Len(trace) :
          /\ trace[i] = "H5Eset_auto" <=> i = 1
          /\ i = 2 <=> trace[i] = "call " \o line.fname \o "(" \o line.args \o ")"
          /\ i = 3 <=> trace[i] = "test"
          /\ trace[i] \in {"set_exception True", "set_exception False"}
                => i = 4 /\ TestTrue
          /\ trace[i] = "raise"
                => TestTrue /\ line.error /\ StepAfter(i, {"set_exception False"})
          /\ trace[i] = "return r"
                => \/ ~TestTrue /\ StepAfter(i, {"test"})
                   \/ ~line.error /\ StepAfter(i, {"set_exception False"})
    /\ wpc = "done" => ret.kind = Outcome.kind /\ ret.value = Outcome.value
    /\ wpc # "done" => IsNone(ret)

\* the translator declined for an error-flagged line, and the wrapper raised
C1_Witness ==
    /\ wpc = "done"
    /\ trace = <<"H5Eset_auto", "call foo(a, b)", "test", "set_exception False", "raise">>
    /\ ret.kind = "raise"

-----------------------------------------------------------------------------
(* C2 *)

ExpectedTest(code) ==
    IF Contains(code, "*") \/ code = "H5T_conv_t"
    THEN <<"==NULL", "NULL">>
    ELSE IF code \in {"int", "herr_t", "htri_t", "hid_t", "hssize_t", "ssize_t"}
            \/ StatusTypeMatch(code)
    THEN <<"<0", "-1">>
    ELSE IF code \in {"unsigned int", "haddr_t", "hsize_t", "size_t"}
    THEN <<"==0", "0">>
    ELSE <<>>

\* C2: the failure test and the sentinel of an emitted wrapper are those of
\* the first rule, in the order pointer-like, signed-status, unsigned, that
\* the return type matches; a return type that contains '*' and also matches
\* the status-type pattern is tested against NULL.
C2_FirstMatchingRule ==
    Written =>
        /\ <<condition, retval>> = ExpectedTest(line.code)
        /\ Contains(Last(cython_imp), "    if r" \o condition \o ":\n")
        /\ Contains(Last(cython_imp),
                    "return <" \o line.code \o ">" \o retval \o "\n")

\* a wrapper was emitted for a pointer to a status type
C2_Witness ==
    /\ Written
    /\ line.code = "H5T_class_t*"
    /\ StatusTypeMatch(line.code)
    /\ condition = "==NULL"

-----------------------------------------------------------------------------
(* C3 *)

\* the first lines of a fragment are the guard outer, the guard inner one
\* level inside it, and the declaration one level further in
Nested(xs, outer, inner) ==
    /\ Len(xs) >= 3
    /\ Strip(xs[1]) = "IF " \o outer \o ":"
    /\ Strip(xs[2]) = "IF " \o inner \o ":"
    /\ Indent(xs[2]) = Indent(xs[1]) + 4
    /\ Indent(xs[3]) = Indent(xs[1]) + 8
    /\ ~StartsWith(Strip(xs[3]), "IF ")

\* C3 as amended: the fragments of a line with both the capability marker
\* and a version constraint have the version guard outermost and the
\* capability guard nested inside it.
C3_VersionGuardOutermost ==
    Written /\ line.mpi /\ VersionCondition(line) # "" =>
        /\ Nested(Lines(Last(raw_defs)), VersionCondition(line), "MPI")
        /\ Nested(Lines(Last(cython_defs)), VersionCondition(line), "MPI")
        /\ Nested(Lines(Last(cython_imp)), VersionCondition(line), "MPI")

\* C3 as the specification states it: the capability guard is the outer
\* one and the version guard is nested inside it.
C3_CapabilityGuardOutermost ==
    Written /\ line.mpi /\ VersionCondition(line) # "" =>
        /\ Nested(Lines(Last(raw_defs)), "MPI", VersionCondition(line))
        /\ Nested(Lines(Last(cython_defs)), "MPI", VersionCondition(line))
        /\ Nested(Lines(Last(cython_imp)), "MPI", VersionCondition(line))

\* the fragments of a line with both guards are written
C3_Witness ==
    /\ Written
    /\ line.mpi
    /\ VersionCondition(line) = "HDF5_VERSION >= (1, 8, 12)"
    /\ StartsWith(Last(cython_defs),
                  "IF HDF5_VERSION >= (1, 8, 12):\n    IF MPI:\n        cdef int foo(")

-----------------------------------------------------------------------------
(* C4 *)

\* the whole of a text matches PATTERN, its last character included
FullMatch(s) == \E n \in Attempts : PatternAttempt(s, n).end = Len(s) + 1

\* C4 as the specification states it: Line(text) fails with "Invalid line
\* encountered" for every text whose whole does not match the function-line
\* grammar, text after the closing parenthesis included, and nothing is
\* written for such a line.
C4_WholeTextMustMatch ==
    AtFunctionLine /\ ~FullMatch(Strip(LastConsumed)) =>
        /\ pc = "aborted"
        /\ err = "Invalid line encountered: " \o Strip(LastConsumed)
        /\ ~Declares(Last(raw_defs), Matched(LastConsumed))

-----------------------------------------------------------------------------
(* C5 *)

\* the identifiers of a parameter text, by their places in it
IdentStarts(p) == {i \in 1..Len(p) : Ch(p, i) \in AlNum /\ Ch(p, i - 1) \notin AlNum}
Ident(p, i) == SubSeq(p, i, RunEnd(p, i, AlNum) - 1)
RECURSIVE Ascending(_)
Ascending(S) == IF S = {} THEN <<>> ELSE <<SetMin(S)>> \o Ascending(S \ {SetMin(S)})
IdentsAt(p, at) == [k \in 1..Len(at) |-> Ident(p, at[k])]

\* a parameter's name: its last identifier
ParamName(p) == IF IdentStarts(p) = {} THEN "" ELSE Ident(p, SetMax(IdentStarts(p)))
ParamNames(ps) == [k \in 1..Len(ps) |-> ParamName(ps[k])]

\* the text between two identifiers that follow one another
Gap(p, at, k) == SubSeq(p, RunEnd(p, at[k], AlNum), at[k + 1] - 1)

\* A parameter without its const qualifiers is one type identifier, after an
\* optional "unsigned" and spaces, and a name, with at least one space
\* between the type and the name; no identifier starts with a digit.
TypeThenName(q, at, ids) ==
    /\ Len(ids) \in {2, 3}
    /\ \A k \in 1..Len(ids) : Ch(ids[k], 1) \in Alpha
    /\ Len(ids) = 3 => ids[1] = "unsigned" /\ Strip(Gap(q, at, 1)) = ""
    /\ Contains(Gap(q, at, Len(ids) - 1), " ")
ConstQualified(ids) == \A k \in 1..Len(ids) : Contains(ids[k], "const") => ids[k] = "const"
WithoutConst(ids) == SelectSeq(ids, LAMBDA x : x # "const")
WellFormedAt(p, at) ==
    /\ ConstQualified(IdentsAt(p, at))
    /\ TypeThenName(Replace(p, "const", "     ", 0, TRUE),
                    SelectSeq(at, LAMBDA i : Ident(p, i) # "const"),
                    WithoutConst(IdentsAt(p, at)))
WellFormedParam(p) == WellFormedAt(p, Ascending(IdentStarts(p)))
AllWellFormed(ps) == \A k \in 1..Len(ps) : WellFormedParam(ps[k])

\* C5 as amended: for a non-empty parameter list whose parameters are all
\* written as optional const qualifiers, an optional "unsigned", one type
\* identifier, optional '*'s and a name, with a space between type and name
\* and no identifier that contains "const", the call arguments are the
\* parameters' names, one per comma-separated parameter, joined by ", ".
C5_ArgsOfWellFormedParams ==
    Parsed /\ line.sig # "" /\ AllWellFormed(Split(line.sig, ",")) =>
        line.args = Join(ParamNames(Split(line.sig, ",")), ", ")

\* C5 as the specification states it: for every non-empty parameter list
\* the call arguments hold one entry per comma-separated parameter, the
\* parameter's name.
C5_ArgsOfEveryParam ==
    Parsed /\ line.sig # "" =>
        line.args = Join(ParamNames(Split(line.sig, ",")), ", ")

\* a list of two well-formed parameters, one const-qualified and one
\* unsigned, has been parsed
C5_Witness ==
    /\ Parsed
    /\ line.sig = "const char *name, unsigned int n"
    /\ AllWellFormed(Split(line.sig, ","))
    /\ line.args = "name, n"

-----------------------------------------------------------------------------
(* C6 *)

\* C6 as the specification states it: Line(text) never returns a descriptor
\* with no call arguments for a non-empty parameter list; it fails with
\* "Invalid function signature" instead.  (The list "(void)", for which
\* the specification expects no arguments, is left aside.)
C6_NoNameIsAnError ==
    AtFunctionLine /\ FullMatch(Strip(LastConsumed))
    /\ PatternMatch(Strip(LastConsumed)).sig \notin {"", "void"}
    /\ SigFindAll(ConstStripped(PatternMatch(Strip(LastConsumed)).sig)).list = <<>>
    => /\ pc = "aborted"
       /\ err = "Invalid function signature: " \o PatternMatch(Strip(LastConsumed)).sig

-----------------------------------------------------------------------------
(* C7 *)

\* no rule of the classification matches a return type
NoRule(code) == ExpectedTest(code) = <<>>

\* the run was ended by write_cython_imp's ValueError
UnknownCodeAbort == pc = "aborted" /\ StartsWith(err, "Return code ")

\* C7 as amended: a function line whose return type matches no rule ends
\* the run in write_cython_imp with an error that names the return type
\* (and not the function): "Return code <<type>> unknown".
C7_UnknownReturnNamesType ==
    AtFunctionLine /\ ~IsNone(line) /\ NoRule(line.code) =>
        \/ pc \in {"raw", "def", "imp"}
        \/ /\ pc = "aborted"
           /\ err = "Return code <<" \o line.code \o ">> unknown"

\* C7 as the specification states it: the error names the return type and
\* the function.
C7_UnknownReturnNamesTypeAndFunction ==
    AtFunctionLine /\ ~IsNone(line) /\ NoRule(line.code) =>
        \/ pc \in {"raw", "def", "imp"}
        \/ /\ pc = "aborted"
           /\ Contains(err, line.code)
           /\ Contains(err, line.fname)

\* the run has ended at a function that returns a double
C7_Witness ==
    /\ UnknownCodeAbort
    /\ line.code = "double"
    /\ line.fname = "foo"

-----------------------------------------------------------------------------
(* C8 *)

\* the entry of the raw stream for a written line: the extern opening of a
\* directive, the fragment of a function line
RawEntryFor(entry, text, m) ==
    IF IsDirective(text)
    THEN entry = "cdef extern from \"" \o SplitFirst(text, ":") \o ".h\":\n"
    ELSE IsFragment(entry) /\ Declares(entry, m)

\* the entries of each stream after its preamble, against the written lines
\* ws and the function lines fs taken (wm and fm: what PATTERN makes of
\* them): nr, nd and ni entries are written for the line being processed
EntriesAgainst(ws, wm, fs, fm, nr, nd, ni) ==
    /\ raw_defs[1] = raw_preamble
    /\ cython_defs[1] = def_preamble
    /\ cython_imp[1] = imp_preamble
    /\ Len(raw_defs) = 1 + Len(ws) - 1 + nr
    /\ Len(cython_defs) = 1 + Len(fs) - 1 + nd
    /\ Len(cython_imp) = 1 + Len(fs) - 1 + ni
    /\ \A k \in 2..Len(raw_defs) : RawEntryFor(raw_defs[k], ws[k - 1], wm[k - 1])
    /\ \A k \in 2..Len(cython_defs) :
          StartsWith(cython_defs[k], "cdef ") \/ StartsWith(cython_defs[k], "IF ")
    /\ \A k \in 2..Len(cython_defs) : Declares(cython_defs[k], fm[k - 1])
    /\ \A k \in 2..Len(cython_imp) :
          Contains(cython_imp[k], "    r = _hdf5." \o fm[k - 1].fname \o "(")
    /\ \A k \in 2..Len(cython_imp) : Declares(cython_imp[k], fm[k - 1])
EntriesInOrder(ws, fs, nr, nd, ni) ==
    EntriesAgainst(ws, Matches(ws), fs, Matches(fs), nr, nd, ni)

\* C8: while a run meets no error, each stream holds its preamble and then
\* one fragment per function line taken, in input order; the fragments of
\* one line are written in the order raw, def, imp; a directive adds an
\* extern opening to the raw stream only; blank and comment lines add
\* nothing.
C8_StreamsFollowInput ==
    /\ pc \in {"loop", "done"} => EntriesInOrder(WrittenLines, FunctionLines, 1, 1, 1)
    /\ pc = "raw" => EntriesInOrder(WrittenLines, FunctionLines, 0, 0, 0)
    /\ pc = "def" => EntriesInOrder(WrittenLines, FunctionLines, 1, 0, 0)
    /\ pc = "imp" => EntriesInOrder(WrittenLines, FunctionLines, 1, 1, 0)

\* a directive and a function line have been processed to the end
C8_Witness ==
    /\ pc = "done"
    /\ consumed = <<"hdf5:\n", "  herr_t H5open()\n">>
    /\ Len(raw_defs) = 3
    /\ Len(cython_defs) = 2
    /\ Len(cython_imp) = 2

-----------------------------------------------------------------------------
(* C9 *)

\* the k guard lines, each one level inside the one before
GuardHeader(xs, k) == \A j \in 1..k : StartsWith(xs[j], Spaces(4 * (j - 1)) \o "IF ")

\* the lines xs of a wrapped fragment against the lines ys of the fragment:
\* every line indented by k levels, the blank ones too, and nothing after
\* the final newline
IndentedThroughout(xs, ys, k) ==
    /\ Len(xs) = Len(ys) + k
    /\ GuardHeader(xs, k)
    /\ \A i \in 1..(Len(ys) - 1) : xs[k + i] = Spaces(4 * k) \o ys[i]
    /\ xs[Len(xs)] = ""

\* the non-blank lines indented by k levels, the blank ones left empty
IndentedNonBlank(xs, ys, k) ==
    /\ Len(xs) = Len(ys) + k
    /\ GuardHeader(xs, k)
    /\ \A i \in 1..Len(ys) :
          xs[k + i] = IF Strip(ys[i]) # "" THEN Spaces(4 * k) \o ys[i] ELSE ""

\* C9 as amended: add_cython_if puts the k guard lines in front and indents
\* every line of the fragment by k levels, the fragment's trailing blank
\* line included, which becomes a line of 4k spaces; nothing follows the
\* final newline.
C9_EveryLineIndented ==
    Written =>
        /\ IndentedThroughout(Lines(Last(cython_defs)), Lines(CythonSigBlock(line)),
                              Guards(line))
        /\ IndentedThroughout(Lines(Last(cython_imp)),
                              Lines(ImpTemplate(line, condition, retval)), Guards(line))

\* C9 as the specification states it: every non-blank line is indented by
\* k levels and the trailing blank line is left empty.
C9_BlankLineLeftEmpty ==
    Written =>
        /\ IndentedNonBlank(Lines(Last(cython_defs)), Lines(CythonSigBlock(line)),
                            Guards(line))
        /\ IndentedNonBlank(Lines(Last(cython_imp)),
                            Lines(ImpTemplate(line, condition, retval)), Guards(line))

\* a wrapper under two guards is written; its last line but one is blank
C9_Witness ==
    /\ Written
    /\ Guards(line) = 2
    /\ Len(Lines(Last(cython_imp))) = 14
    /\ Lines(Last(cython_imp))[13] = "        "

-----------------------------------------------------------------------------
(* C10 *)

\* C10 as amended: when a run stops, the raw and the def stream hold
\* fragments for the same function lines; the imp stream holds fragments
\* for the same lines too, except that after an unknown-return-type error
\* the line that caused it has its raw and def fragments and no imp
\* fragment.
StreamsHold(ms) ==
    /\ Held(Fragments(raw_defs), ms) = 1..(Len(cython_defs) - 1)
    /\ Held(Tail(cython_defs), ms) = 1..(Len(cython_defs) - 1)
    /\ Held(Tail(cython_imp), ms) = 1..(Len(cython_imp) - 1)
C10_StreamsAtStop ==
    pc \in {"done", "aborted"} =>
        /\ StreamsHold(Matches(FunctionLines))
        /\ Len(cython_imp) = Len(cython_defs) - (IF UnknownCodeAbort THEN 1 ELSE 0)
        /\ UnknownCodeAbort => Len(cython_defs) - 1 = Len(FunctionLines)

\* C10 as the specification states it: when a run stops, by an error too,
\* the three streams hold fragments for the same set of function lines.
StreamsHoldTheSame(ms) ==
    /\ Held(Fragments(raw_defs), ms) = Held(Tail(cython_defs), ms)
    /\ Held(Tail(cython_defs), ms) = Held(Tail(cython_imp), ms)
C10_SameLinesInEveryStream ==
    pc \in {"done", "aborted"} => StreamsHoldTheSame(Matches(FunctionLines))

\* a run that wrote one function's three fragments has ended at a second
\* function of unknown return type
C10_Witness ==
    /\ UnknownCodeAbort
    /\ Len(consumed) = 2
    /\ Len(raw_defs) = 3
    /\ Len(cython_defs) = 3
    /\ Len(cython_imp) = 2

====
